---------------------------- MODULE Spec2Model ----------------------------
(***************************************************************************)
(* "Download as EML": downloadOperation.executeImapAction.                 *)
(*                                                                         *)
(* One invocation of the operation is one behaviour.  The async function   *)
(* is cut at its awaits: every action runs the synchronous code between    *)
(* two suspension points.  The IMAP client (imapflow) and the host helper  *)
(* prepareBinaryData are the environment: each call is logged in `calls`,  *)
(* and resolves or rejects in a later step.                                *)
(***************************************************************************)
EXTENDS Integers, Sequences, FiniteSets, TLC

(* ------------------------------ bounds -------------------------------- *)

\* Smallest UID a message of the mailbox can have.
FirstUid == 9

\* Number of UIDs the mailbox can hold messages for.
MaxMsgs == 2

Uids == FirstUid .. (FirstUid + MaxMsgs - 1)

\* Raw message sources (Buffers, as byte sequences): the empty buffer, and
\* "H", e-acute in UTF-8, and a byte that is not valid UTF-8.
Sources == { <<>>, <<72, 195, 169, 255>> }

MailboxPaths == {"INBOX", "Sent"}
PropertyNames == {"data", "eml"}
ItemIndexes == {0, 1}

\* What a rejected client or helper call can reject with.
Errors == {"ConnectionError", "IOError"}

(* --------------------------- pure helpers ----------------------------- *)

Digit(d) ==
    CASE d = 0 -> "0" [] d = 1 -> "1" [] d = 2 -> "2" [] d = 3 -> "3"
      [] d = 4 -> "4" [] d = 5 -> "5" [] d = 6 -> "6" [] d = 7 -> "7"
      [] d = 8 -> "8" [] d = 9 -> "9"

\* JavaScript's conversion of a non-negative integer in a string
\* concatenation ('_' + email.uid): its decimal digits.
RECURSIVE NumToStr(_)
NumToStr(n) ==
    IF n < 10 THEN Digit(n) ELSE NumToStr(n \div 10) \o Digit(n % 10)

\* Buffer.prototype.toString(): UTF-8 decoding, to a sequence of code
\* points.  One- and two-byte sequences are decoded; any other byte is
\* replaced by U+FFFD, one replacement per byte.
RECURSIVE Utf8Decode(_)
Utf8Decode(b) ==
    IF b = <<>> THEN <<>>
    ELSE LET h == Head(b) IN
         IF h < 128
         THEN <<h>> \o Utf8Decode(Tail(b))
         ELSE IF /\ h >= 194 /\ h <= 223 /\ Len(b) >= 2
                 /\ b[2] >= 128 /\ b[2] <= 191
              THEN <<(h - 192) * 64 + (b[2] - 128)>> \o Utf8Decode(Tail(Tail(b)))
              ELSE <<65533>> \o Utf8Decode(Tail(b))

\* JavaScript truthiness of a string: every non-empty string is truthy.
Truthy(s) == s # ""

\* let jsonData: IDataObject = {};
EmptyObject == [k \in {} |-> TRUE]

\* let binaryFields: IBinaryKeyData | undefined = undefined;
\* An optional value is the empty set or a singleton.
Undefined == {}

RECURSIVE SortedSeq(_)
SortedSeq(S) ==
    IF S = {} THEN <<>>
    ELSE LET m == CHOOSE x \in S : \A y \in S : x <= y
         IN <<m>> \o SortedSeq(S \ {m})

(* ----------------------------- the state ------------------------------ *)

VARIABLES
    mailboxPath,         \* getMailboxPathFromNodeParameter(context, itemIndex)
    emailUid,            \* node parameter 'emailUid'
    outputToBinary,      \* node parameter 'outputToBinary'
    binaryPropertyName,  \* node parameter 'binaryPropertyName'
    itemIndex,           \* the itemIndex argument
    searchCriteria,      \* the search parameters of the node: the UIDs they match
    mailbox,             \* the server's mailbox: messages by ascending UID
    pc,                  \* where the async function is suspended
    opened,              \* client.mailboxOpen has resolved
    criteriaRead,        \* getEmailSearchParametersFromNode was called
    stream,              \* the messages client.fetch is going to deliver
    cursor,              \* how many of them it has delivered
    foundAny,            \* let foundAny
    results,             \* let results: INodeExecutionData[]
    staging,             \* prepareBinaryData calls in flight
    calls,               \* every client / helper call issued, in order
    fetchStatus,         \* the client's fetchOne / fetch: idle, open, resolved, ended, failed
    raised,              \* the error a client or helper call rejected with, if any
    outcome              \* what the invocation settles with

params == <<mailboxPath, emailUid, outputToBinary, binaryPropertyName,
            itemIndex, searchCriteria, mailbox>>

vars == <<mailboxPath, emailUid, outputToBinary, binaryPropertyName,
          itemIndex, searchCriteria, mailbox, pc, opened, criteriaRead,
          stream, cursor, foundAny, results, staging, calls, fetchStatus,
          raised, outcome>>

\* What a message of the mailbox can be: the client delivers `source` only
\* when the server sent it.
Contents ==
    {[hasSource |-> FALSE, source |-> <<>>]}
        \cup {[hasSource |-> TRUE, source |-> s] : s \in Sources}

Mailboxes ==
    UNION { { [i \in 1..Cardinality(P) |->
                 [uid |-> SortedSeq(P)[i],
                  hasSource |-> c[SortedSeq(P)[i]].hasSource,
                  source |-> c[SortedSeq(P)[i]].source]] : c \in [P -> Contents] }
            : P \in SUBSET Uids }

\* 'emailUid' is a free-text parameter: empty, a UID, or the IMAP range "*".
EmailUids == {"", "*"} \cup { NumToStr(u) : u \in Uids }

Pending == [kind |-> "pending", value |-> <<>>, error |-> ""]
Returned(res) == [kind |-> "returned", value |-> res, error |-> ""]
Thrown(e) == [kind |-> "thrown", value |-> <<>>, error |-> e]

NotFoundUid == "No email found with the specified UID"
NotFoundSearch == "No emails found matching the search criteria."
TypeErr == "TypeError: Cannot read properties of undefined (reading 'toString')"

Init ==
    /\ mailboxPath \in MailboxPaths
    /\ emailUid \in EmailUids
    /\ outputToBinary \in BOOLEAN
    /\ binaryPropertyName \in PropertyNames
    /\ itemIndex \in ItemIndexes
    /\ searchCriteria \in SUBSET Uids
    /\ mailbox \in Mailboxes
    /\ pc = "start"
    /\ opened = FALSE
    /\ criteriaRead = FALSE
    /\ stream = <<>>
    /\ cursor = 0
    /\ foundAny = FALSE
    /\ results = <<>>
    /\ staging = {}
    /\ calls = <<>>
    /\ fetchStatus = "idle"
    /\ raised = ""
    /\ outcome = Pending


(* --------------------- the code's decision points --------------------- *)

\* Variant: the mailbox opened for writing.
OpenOptionsReadWrite == [readOnly |-> FALSE]

\* client.mailboxOpen(mailboxPath, { readOnly: true })
OpenOptions == [readOnly |-> TRUE]

\* Variant: no branch, fetchOne whatever emailUid is.
UseSingleAlways(uid) == TRUE

\* if (emailUid) { ... } else { ... }
UseSingle(uid) == Truthy(uid)

\* The reply of client.fetchOne(range, query, { uid: true }): the message the
\* UID range names ("*" is the last message of the mailbox), or false.
NoMessage == [found |-> FALSE, uid |-> 0, hasSource |-> FALSE, source |-> <<>>]

FetchOneReply(mb, range) ==
    LET hits == IF range = "*"
                THEN {i \in 1..Len(mb) : i = Len(mb)}
                ELSE {i \in 1..Len(mb) : NumToStr(mb[i].uid) = range}
    IN IF hits = {} THEN NoMessage
       ELSE LET m == mb[CHOOSE i \in hits : TRUE]
            IN [found |-> TRUE, uid |-> m.uid,
                hasSource |-> m.hasSource, source |-> m.source]

\* The messages client.fetch(searchObject, query) delivers: those of the
\* mailbox the criteria match, in the mailbox's order.
FetchStream(mb, searchObject) ==
    SelectSeq(mb, LAMBDA m : m.uid \in searchObject)

\* Variant: if (!emailInfo), the source left unchecked.
IsMissingNoSourceCheck(info) == ~info.found

\* if (!emailInfo || !emailInfo.source)
IsMissing(info) == ~info.found \/ ~info.hasSource

\* mailboxPath + '_' + emailUid + '.eml'
SingleFileName(path, uidParam) == path \o "_" \o uidParam \o ".eml"

\* mailboxPath + '_' + email.uid + '.eml'
SearchFileName(path, uid) == path \o "_" \o NumToStr(uid) \o ".eml"

MimeType == "message/rfc822"

\* Variant: the buffer stored as it is, not decoded.
TextJsonRaw(src) == [emlContent |-> src]

\* jsonData = { ...jsonData, emlContent: source.toString() }
TextJson(src) == [emlContent |-> Utf8Decode(src)]

\* binaryFields = { [binaryPropertyName]: binaryData }
BinaryFields(prop, blob) == {prop :> blob}

\* Variant: every record paired to the first item.
PairedItemFirst(idx) == [item |-> 0]

\* pairedItem: { item: itemIndex }
PairedItem(idx) == [item |-> idx]

\* results.push({ json: jsonData, binary: binaryFields, pairedItem: ... })
Item(json, binary, idx) ==
    [json |-> json, binary |-> binary, pairedItem |-> PairedItem(idx)]

\* What context.helpers.prepareBinaryData resolves with for a call.
Blob(call) ==
    [data |-> call.source, fileName |-> call.fileName, mimeType |-> call.mimeType]

\* Variant: a rejection caught, the records built so far returned.
PropagateFlush(e, res) == Returned(res)

\* A rejected await inside executeImapAction: there is no try/catch, the
\* rejection leaves the function as it is and `results` is dropped.
Propagate(e, res) == Thrown(e)

\* Variant: no foundAny check, the empty list returned.
StreamEndOutcomeSilent(found, res) == Returned(res)

\* if (!foundAny) throw ...; return results;
StreamEndOutcome(found, res) ==
    IF ~found THEN Thrown(NotFoundSearch) ELSE Returned(res)

\* Variant: prepareBinaryData not awaited, the loop goes on to the stream.
StagePcNoAwait == "awaitNext"

\* Where the for-await loop is after it called prepareBinaryData: the call
\* is awaited before the loop asks the stream for the next message.
StagePc == "awaitStage"

(* ----------------------------- the steps ------------------------------ *)

\* await client.mailboxOpen(mailboxPath, { readOnly: true }): the call.
CallMailboxOpen ==
    /\ pc = "start"
    /\ calls' = Append(calls, [op |-> "mailboxOpen", arg |-> mailboxPath,
                               options |-> OpenOptions])
    /\ pc' = "awaitOpen"
    /\ UNCHANGED <<params, opened, criteriaRead, stream, cursor, foundAny,
                   results, staging, outcome, fetchStatus, raised>>

\* mailboxOpen resolves; the parameters are read and the branch is taken:
\* client.fetchOne is called.
BranchSingle ==
    /\ pc = "awaitOpen"
    /\ UseSingle(emailUid)
    /\ opened' = TRUE
    /\ calls' = Append(calls, [op |-> "fetchOne", arg |-> emailUid,
                               options |-> [uid |-> TRUE]])
    /\ pc' = "awaitFetchOne"
    /\ fetchStatus' = "open"
    /\ UNCHANGED <<params, criteriaRead, stream, cursor, foundAny, results,
                   staging, outcome, raised>>

\* mailboxOpen resolves; the parameters are read and the branch is taken:
\* the search parameters are read and client.fetch is called.
BranchSearch ==
    /\ pc = "awaitOpen"
    /\ ~UseSingle(emailUid)
    /\ opened' = TRUE
    /\ criteriaRead' = TRUE
    /\ calls' = Append(calls, [op |-> "fetch", arg |-> searchCriteria,
                               options |-> [uid |-> TRUE, source |-> TRUE]])
    /\ stream' = FetchStream(mailbox, searchCriteria)
    /\ pc' = "awaitNext"
    /\ fetchStatus' = "open"
    /\ UNCHANGED <<params, cursor, foundAny, results, staging, outcome, raised>>

\* mailboxOpen rejects.
MailboxOpenRejects ==
    /\ pc = "awaitOpen"
    /\ \E e \in Errors : raised' = e /\ outcome' = Propagate(e, results)
    /\ pc' = "done"
    /\ UNCHANGED <<params, opened, criteriaRead, stream, cursor, foundAny,
                   results, staging, calls, fetchStatus>>

\* fetchOne resolves: the single-UID branch up to its next await or its end.
FetchOneResolves ==
    /\ pc = "awaitFetchOne"
    /\ LET info == FetchOneReply(mailbox, emailUid) IN
       IF IsMissing(info)
       THEN /\ outcome' = Thrown(NotFoundUid)
            /\ pc' = "done"
            /\ UNCHANGED <<results, staging, calls>>
       ELSE IF outputToBinary
       THEN LET call == [seq |-> 1, hasSource |-> info.hasSource,
                         source |-> info.source,
                         fileName |-> SingleFileName(mailboxPath, emailUid),
                         mimeType |-> MimeType]
            IN /\ staging' = staging \cup {call}
               /\ calls' = Append(calls, [op |-> "prepareBinaryData",
                                          arg |-> call.fileName,
                                          options |-> call])
               /\ pc' = "awaitStageOne"
               /\ UNCHANGED <<results, outcome>>
       ELSE IF info.hasSource
       THEN /\ results' = Append(results,
                                 Item(TextJson(info.source), Undefined, itemIndex))
            /\ outcome' = Returned(results')
            /\ pc' = "done"
            /\ UNCHANGED <<staging, calls>>
       ELSE /\ outcome' = Thrown(TypeErr)
            /\ pc' = "done"
            /\ UNCHANGED <<results, staging, calls>>
    /\ fetchStatus' = "resolved"
    /\ UNCHANGED <<params, opened, criteriaRead, stream, cursor, foundAny, raised>>

\* fetchOne rejects.
FetchOneRejects ==
    /\ pc = "awaitFetchOne"
    /\ \E e \in Errors : raised' = e /\ outcome' = Propagate(e, results)
    /\ pc' = "done"
    /\ fetchStatus' = "failed"
    /\ UNCHANGED <<params, opened, criteriaRead, stream, cursor, foundAny,
                   results, staging, calls>>

\* prepareBinaryData resolves in the single-UID branch: push and return.
StageOneResolves ==
    /\ pc = "awaitStageOne"
    /\ \E call \in staging :
         /\ staging' = staging \ {call}
         /\ results' = Append(results,
                              Item(EmptyObject,
                                   BinaryFields(binaryPropertyName, Blob(call)),
                                   itemIndex))
    /\ outcome' = Returned(results')
    /\ pc' = "done"
    /\ UNCHANGED <<params, opened, criteriaRead, stream, cursor, foundAny, calls, fetchStatus, raised>>

\* prepareBinaryData rejects in the single-UID branch.
StageOneRejects ==
    /\ pc = "awaitStageOne"
    /\ \E call \in staging : staging' = staging \ {call}
    /\ \E e \in Errors : raised' = e /\ outcome' = Propagate(e, results)
    /\ pc' = "done"
    /\ UNCHANGED <<params, opened, criteriaRead, stream, cursor, foundAny,
                   results, calls, fetchStatus>>

\* The fetch stream delivers its next message: one pass of the loop body up
\* to its await (binary mode) or its end (text mode).
StreamYields ==
    /\ pc = "awaitNext"
    /\ cursor < Len(stream)
    /\ cursor' = cursor + 1
    /\ foundAny' = TRUE
    /\ LET email == stream[cursor + 1] IN
       IF outputToBinary
       THEN LET call == [seq |-> cursor + 1, hasSource |-> email.hasSource,
                         source |-> email.source,
                         fileName |-> SearchFileName(mailboxPath, email.uid),
                         mimeType |-> MimeType]
            IN /\ staging' = staging \cup {call}
               /\ calls' = Append(calls, [op |-> "prepareBinaryData",
                                          arg |-> call.fileName,
                                          options |-> call])
               /\ pc' = StagePc
               /\ UNCHANGED <<results, outcome>>
       ELSE IF email.hasSource
       THEN /\ results' = Append(results,
                                 Item(TextJson(email.source), Undefined, itemIndex))
            /\ pc' = "awaitNext"
            /\ UNCHANGED <<staging, calls, outcome>>
       ELSE /\ outcome' = Thrown(TypeErr)
            /\ pc' = "done"
            /\ UNCHANGED <<results, staging, calls>>
    /\ UNCHANGED <<params, opened, criteriaRead, stream, fetchStatus, raised>>

\* The fetch stream rejects, before or after any of its messages.
StreamRejects ==
    /\ pc = "awaitNext"
    /\ \E e \in Errors : raised' = e /\ outcome' = Propagate(e, results)
    /\ pc' = "done"
    /\ fetchStatus' = "failed"
    /\ UNCHANGED <<params, opened, criteriaRead, stream, cursor, foundAny,
                   results, staging, calls>>

\* The fetch stream ends: the code after the loop.
StreamEnds ==
    /\ pc = "awaitNext"
    /\ cursor = Len(stream)
    /\ outcome' = StreamEndOutcome(foundAny, results)
    /\ pc' = "done"
    /\ fetchStatus' = "ended"
    /\ UNCHANGED <<params, opened, criteriaRead, stream, cursor, foundAny,
                   results, staging, calls, raised>>

\* prepareBinaryData resolves in the loop: push, and back to the stream.
StageResolves ==
    /\ pc = "awaitStage"
    /\ \E call \in staging :
         /\ staging' = staging \ {call}
         /\ results' = Append(results,
                              Item(EmptyObject,
                                   BinaryFields(binaryPropertyName, Blob(call)),
                                   itemIndex))
    /\ pc' = "awaitNext"
    /\ UNCHANGED <<params, opened, criteriaRead, stream, cursor, foundAny,
                   calls, outcome, fetchStatus, raised>>

\* prepareBinaryData rejects in the loop.
StageRejects ==
    /\ pc = "awaitStage"
    /\ \E call \in staging : staging' = staging \ {call}
    /\ \E e \in Errors : raised' = e /\ outcome' = Propagate(e, results)
    /\ pc' = "done"
    /\ UNCHANGED <<params, opened, criteriaRead, stream, cursor, foundAny,
                   results, calls, fetchStatus>>

Next ==
    \/ CallMailboxOpen
    \/ BranchSingle
    \/ BranchSearch
    \/ MailboxOpenRejects
    \/ FetchOneResolves
    \/ FetchOneRejects
    \/ StageOneResolves
    \/ StageOneRejects
    \/ StreamYields
    \/ StreamRejects
    \/ StreamEnds
    \/ StageResolves
    \/ StageRejects

Spec == Init /\ [][Next]_vars

(* ------------------------------ claims -------------------------------- *)

CallsOf(op) == {i \in 1..Len(calls) : calls[i].op = op}

\* The message the single-UID branch was answered with.
Fetched == FetchOneReply(mailbox, emailUid)

\* The file name the documentation gives a message's blob.
DocFileName(uid) == mailboxPath \o "_" \o NumToStr(uid) \o ".eml"

\* C1: with an empty emailUid, when the fetch stream ends having delivered
\* no message the invocation fails with the not-found error; in search mode
\* no empty list is ever returned, and a failed invocation returns no record.
C1_NoMatchIsNotFound ==
    /\ (emailUid = "" /\ fetchStatus = "ended" /\ cursor = 0)
          => outcome = Thrown(NotFoundSearch)
    /\ (emailUid = "" /\ outcome.kind = "returned")
          => Len(outcome.value) >= 1

\* The criteria match none of a non-empty mailbox's messages.
C1_Witness ==
    /\ emailUid = ""
    /\ Len(mailbox) >= 1
    /\ fetchStatus = "ended"
    /\ cursor = 0
    /\ outcome = Thrown(NotFoundSearch)

\* C2: with a non-empty emailUid, when fetchOne answers with no message or
\* with a message without source the invocation fails with the not-found
\* error and no record; when it answers with a message that has a source
\* (and no call of the invocation is rejected) exactly one record is
\* returned; a returned list has exactly one record; and the only error the
\* invocation raises of its own is the not-found error.
C2_SingleUidOneOrNotFound ==
    LET missing == ~Fetched.found \/ ~Fetched.hasSource IN
    emailUid # "" =>
        /\ (fetchStatus = "resolved" /\ missing)
              => (pc = "done" /\ outcome = Thrown(NotFoundUid))
        /\ (fetchStatus = "resolved" /\ ~missing /\ pc = "done" /\ raised = "")
              => (outcome.kind = "returned" /\ Len(outcome.value) = 1)
        /\ (fetchStatus = "resolved" /\ ~missing /\ ~outputToBinary)
              => (outcome.kind = "returned" /\ Len(outcome.value) = 1)
        /\ outcome.kind = "returned" => Len(outcome.value) = 1
        /\ (outcome.kind = "thrown" /\ raised = "") => outcome.error = NotFoundUid
        /\ Len(results) <= 1

\* fetchOne answered with a message that carries no source.
C2_Witness ==
    /\ emailUid # ""
    /\ Fetched.found
    /\ ~Fetched.hasSource
    /\ fetchStatus = "resolved"
    /\ outcome = Thrown(NotFoundUid)

\* C3 (as claimed): with an empty emailUid, when the stream delivers its
\* N >= 1 messages and no call is rejected, N records are returned and the
\* i-th is built from the i-th message delivered.
C3_SearchReturnsAllInOrder ==
    (emailUid = "" /\ pc = "done" /\ raised = "" /\ Len(stream) >= 1)
        => /\ outcome.kind = "returned"
           /\ Len(outcome.value) = Len(stream)
           /\ \A i \in 1..Len(outcome.value) :
                 IF outputToBinary
                 THEN \E f \in outcome.value[i].binary :
                         /\ f[binaryPropertyName].data = stream[i].source
                         /\ f[binaryPropertyName].fileName = DocFileName(stream[i].uid)
                 ELSE outcome.value[i].json.emlContent = Utf8Decode(stream[i].source)

\* C3, for streams whose messages all carry a source: the N records are
\* returned, in the stream's order.
C3_WithSources ==
    (/\ emailUid = "" /\ pc = "done" /\ raised = "" /\ Len(stream) >= 1
     /\ \A i \in 1..Len(stream) : stream[i].hasSource)
        => /\ outcome.kind = "returned"
           /\ Len(outcome.value) = Len(stream)
           /\ \A i \in 1..Len(outcome.value) :
                 IF outputToBinary
                 THEN \E f \in outcome.value[i].binary :
                         /\ f[binaryPropertyName].data = stream[i].source
                         /\ f[binaryPropertyName].fileName = DocFileName(stream[i].uid)
                 ELSE outcome.value[i].json.emlContent = Utf8Decode(stream[i].source)

\* C4: every returned record has, in binary mode, a binary field keyed by
\* binaryPropertyName and no emlContent; in text mode an emlContent field
\* holding the decoded source of its message and no binary field.
C4_OutputMode ==
    outcome.kind = "returned" =>
        \A i \in 1..Len(outcome.value) :
            LET r == outcome.value[i]
                m == IF emailUid = "" THEN stream[i] ELSE Fetched
            IN IF outputToBinary
               THEN /\ Cardinality(r.binary) = 1
                    /\ \A f \in r.binary :
                          /\ DOMAIN f = {binaryPropertyName}
                          /\ f[binaryPropertyName].data = m.source
                    /\ DOMAIN r.json = {}
               ELSE /\ r.binary = Undefined
                    /\ DOMAIN r.json = {"emlContent"}
                    /\ r.json.emlContent = Utf8Decode(m.source)

\* Two text records, the first one's text differing from its bytes.
C4_Witness ==
    /\ outcome.kind = "returned"
    /\ ~outputToBinary
    /\ Len(outcome.value) = 2
    /\ outcome.value[1].json.emlContent = <<72, 233, 65533>>
    /\ outcome.value[1].binary = Undefined

\* C5 (as claimed): in binary mode every returned record's blob is named
\* mailboxPath_<uid>.eml, uid being the UID of the message it was built
\* from, with media type message/rfc822.
C5_FileNameFromFetchedUid ==
    (outcome.kind = "returned" /\ outputToBinary) =>
        \A i \in 1..Len(outcome.value) :
            LET m == IF emailUid = "" THEN stream[i] ELSE Fetched
            IN \A f \in outcome.value[i].binary :
                  /\ f[binaryPropertyName].fileName = DocFileName(m.uid)
                  /\ f[binaryPropertyName].mimeType = "message/rfc822"

\* C5, in search mode and for an emailUid that is the decimal form of the
\* fetched message's UID: the blob is named after that UID.
C5_SearchOrCanonicalUid ==
    (/\ outcome.kind = "returned" /\ outputToBinary
     /\ (emailUid = "" \/ emailUid = NumToStr(Fetched.uid))) =>
        \A i \in 1..Len(outcome.value) :
            LET m == IF emailUid = "" THEN stream[i] ELSE Fetched
            IN \A f \in outcome.value[i].binary :
                  /\ f[binaryPropertyName].fileName = DocFileName(m.uid)
                  /\ f[binaryPropertyName].mimeType = "message/rfc822"

\* The record of a single-UID invocation, from the parameters other than
\* the search criteria and the message fetchOne answered with.
SingleRecord ==
    IF outputToBinary
    THEN [json |-> EmptyObject,
          binary |-> {binaryPropertyName :>
                         [data |-> Fetched.source,
                          fileName |-> mailboxPath \o "_" \o emailUid \o ".eml",
                          mimeType |-> "message/rfc822"]},
          pairedItem |-> [item |-> itemIndex]]
    ELSE [json |-> [emlContent |-> Utf8Decode(Fetched.source)],
          binary |-> {},
          pairedItem |-> [item |-> itemIndex]]

\* C6: the fetch operation is chosen by the emptiness of emailUid alone:
\* with a non-empty emailUid the search parameters are never read, fetch is
\* never called and no search state is touched; with an empty one fetchOne
\* is never called; once the mailbox is open exactly one of them was called;
\* and what a single-UID invocation returns is determined by the parameters
\* other than the search criteria.
C6_ModeSelection ==
    /\ emailUid # "" =>
          /\ ~criteriaRead
          /\ CallsOf("fetch") = {}
          /\ stream = <<>> /\ cursor = 0 /\ ~foundAny
    /\ emailUid = "" => CallsOf("fetchOne") = {}
    /\ opened =>
          /\ Cardinality(CallsOf("fetch") \cup CallsOf("fetchOne")) = 1
          /\ emailUid = "" => criteriaRead
    /\ ~opened => CallsOf("fetch") \cup CallsOf("fetchOne") = {}
    /\ (emailUid # "" /\ outcome.kind = "returned") =>
          outcome.value = <<SingleRecord>>
    /\ (emailUid # "" /\ outcome.kind = "thrown") =>
          outcome.error \in {NotFoundUid} \cup Errors

\* A single-UID invocation returned while the criteria match every message.
C6_Witness ==
    /\ emailUid \notin {"", "*"}
    /\ searchCriteria = Uids
    /\ Len(mailbox) >= 2
    /\ outcome.kind = "returned"
    /\ CallsOf("fetchOne") # {}

\* C7: every returned record is paired to the invocation's itemIndex.
C7_PairedItem ==
    outcome.kind = "returned" =>
        \A i \in 1..Len(outcome.value) :
            /\ "pairedItem" \in DOMAIN outcome.value[i]
            /\ outcome.value[i].pairedItem = [item |-> itemIndex]

\* Two records of an invocation for item 1.
C7_Witness ==
    /\ outcome.kind = "returned"
    /\ itemIndex = 1
    /\ Len(outcome.value) = 2
    /\ outcome.value[2].pairedItem.item = 1

\* C8: when a call of the invocation is rejected the invocation fails with
\* that very error and returns none of the records built so far; no call is
\* issued again; and a list returned in search mode is the full list.
C8_FailFast ==
    /\ raised # "" => (pc = "done" /\ outcome = Thrown(raised))
    /\ outcome.kind = "thrown" => outcome.value = <<>>
    /\ Cardinality(CallsOf("mailboxOpen")) <= 1
    /\ Cardinality(CallsOf("fetch") \cup CallsOf("fetchOne")) <= 1
    /\ Cardinality(CallsOf("prepareBinaryData")) <= IF emailUid = "" THEN cursor ELSE 1
    /\ (emailUid = "" /\ outcome.kind = "returned")
          => (fetchStatus = "ended" /\ Len(outcome.value) = Len(stream))

\* The stream was rejected after a record had been built.
C8_Witness ==
    /\ emailUid = ""
    /\ fetchStatus = "failed"
    /\ Len(results) >= 1
    /\ raised = "IOError"
    /\ outcome.kind = "thrown"

\* C9: the mailbox is opened once, read-only, as the first call, and has
\* been opened when a fetch is issued; when the open is rejected no fetch
\* is issued, no record is built and the invocation fails with its error.
C9_OpenFirst ==
    /\ Cardinality(CallsOf("mailboxOpen")) <= 1
    /\ pc # "start" =>
          /\ CallsOf("mailboxOpen") = {1}
          /\ calls[1].arg = mailboxPath
          /\ calls[1].options = [readOnly |-> TRUE]
    /\ \A i \in CallsOf("fetch") \cup CallsOf("fetchOne") \cup CallsOf("prepareBinaryData") :
          i > 1 /\ opened
    /\ (pc = "done" /\ ~opened) =>
          /\ Len(calls) = 1
          /\ results = <<>>
          /\ raised # ""
          /\ outcome = Thrown(raised)

\* The open was rejected.
C9_Witness ==
    /\ pc = "done"
    /\ ~opened
    /\ Len(calls) = 1
    /\ calls[1].op = "mailboxOpen"
    /\ outcome = Thrown("ConnectionError")

\* What holds of every state of the search loop.
C10_Sequential ==
    /\ Cardinality(staging) <= 1
    /\ pc = "awaitNext" => (staging = {} /\ Len(results) = cursor)
    /\ pc = "awaitStage" =>
          /\ Len(results) = cursor - 1
          /\ \A c \in staging : c.seq = cursor
    /\ cursor <= Len(stream)
    /\ Cardinality(CallsOf("fetch")) <= 1
    /\ emailUid = "" =>
          /\ \A i \in CallsOf("prepareBinaryData") :
                calls[i].options.seq = i - 2
          /\ \A i \in 1..Len(results) :
                IF outputToBinary
                THEN \A f \in results[i].binary :
                        f[binaryPropertyName].fileName = DocFileName(stream[i].uid)
                ELSE results[i].json.emlContent = Utf8Decode(stream[i].source)

\* The stream only moves forward, one message at a time, and a message is
\* delivered only when no staging call is in flight.
C10_Forward ==
    /\ cursor' \in {cursor, cursor + 1}
    /\ stream # <<>> => stream' = stream
    /\ cursor' = cursor + 1 => (staging = {} /\ Len(results) = cursor)

\* C10: in search mode at most one prepareBinaryData call is in flight; the
\* stream is asked for its next message only when the records of all the
\* messages delivered so far are appended; the staging calls are issued in
\* the stream's order and the records appended in it; fetch is called once;
\* the stream is never restarted.
C10_OneAtATime == []C10_Sequential /\ [][C10_Forward]_vars

\* The second message is being staged, the first one's record is appended.
C10_Witness ==
    /\ pc = "awaitStage"
    /\ cursor = 2
    /\ Len(results) = 1
    /\ Cardinality(staging) = 1

=============================================================================
